---- MODULE Spec2Model ----
(***************************************************************************)
(* Model of common/tools.py: the AverageMeter running statistic, the       *)
(* top-k accuracy function and the train / evaluate epoch loops.           *)
(*                                                                         *)
(* Numbers that Python keeps as floats are modelled as exact rationals     *)
(* <<numerator, denominator>> in lowest terms with a positive denominator. *)
(***************************************************************************)
EXTENDS Integers, Sequences, FiniteSets, TLC

VARIABLES
    \* ---- AverageMeter driven on its own (SpecMeter)
    meter,      \* the AverageMeter object: [val, avg, sum, count]
    hist,       \* the <<val, n>> arguments of the update calls since the last reset
    lastOp,     \* "init", "reset", "update" or "raised" (update raised ZeroDivisionError)
    dirty       \* TRUE when the last reset was applied to a meter that had been updated

VARIABLES
    \* ---- one call of accuracy(output, target, topk) (SpecAccuracy)
    output,     \* N score vectors of length nclass (class c is position c + 1)
    target,     \* N labels
    topk,       \* the requested k's, in order
    nclass,     \* C = output.size(1)
    pred,       \* what output.topk(maxk, 1, True, True) returned, per example
    res,        \* the returned list
    accPc       \* "call", "returned", "raised"

VARIABLES
    \* ---- one run of train(...) or evaluate(...) (SpecEpoch)
    mode,       \* "train" or "evaluate": the function that was called
    amp,        \* train's amp argument
    numBatches, \* len(train_loader) / len(eva_loader)
    numClasses, \* the width of the model's output
    i,          \* batches fetched from the loader so far
    pc,         \* the statement the run is at
    images,     \* shape of the current batch: [n |-> examples, ch |-> channels]
    labels,     \* labels of the current batch
    logist,     \* model(images)
    loss,       \* ceriation(logist, labels).item()
    acc1,       \* first element of accuracy(logist, labels, topk=(1, 5))
    losses, top1, batch_time, data_time,    \* the AverageMeters
    now, end,   \* time.time() and the local variable end
    steps,      \* calls of optimizer.step() / scaler.step(optimizer) so far
    summary,    \* the returned pair, <<>> until train / evaluate returns
    events,     \* what the current batch has executed, in order
    failedAt,   \* where an exception left the function, NoFailure until then
    exLoss, exAcc, exCount  \* sums over processed batches of loss * n, acc1 * n, n

meterVars == <<meter, hist, lastOp, dirty>>
accVars == <<output, target, topk, nclass, pred, res, accPc>>
cfgVars == <<mode, amp, numBatches, numClasses>>
batchVars == <<images, labels, logist, loss, acc1>>
statVars == <<losses, top1, batch_time, data_time>>
tallyVars == <<exLoss, exAcc, exCount>>
epochVars == <<cfgVars, i, pc, batchVars, statVars, now, end, steps, summary,
               events, failedAt, tallyVars>>

vars == <<meterVars, accVars, epochVars>>

(***************************************************************************)
(* Bounds of the model.                                                    *)
(***************************************************************************)
MaxUpdates == 3
MaxWeight == 2
MaxClasses == 3
MaxBatches == 2
MaxBatchSize == 2

\* channels of a loaded image: the datasets convert every image to RGB
Channels == 3

(***************************************************************************)
(* Exact rational arithmetic.                                              *)
(***************************************************************************)
Abs(x) == IF x < 0 THEN -x ELSE x

RECURSIVE GCD(_, _)
GCD(a, b) == IF b = 0 THEN a ELSE GCD(b, a % b)

\* n/d in lowest terms, d # 0
Frac(n, d) ==
    LET s == IF d < 0 THEN -1 ELSE 1
        g == GCD(Abs(n), Abs(d))
    IN  <<(s * n) \div g, (s * d) \div g>>

Zero == <<0, 1>>
Int2R(z) == <<z, 1>>
RAdd(a, b) == Frac(a[1] * b[2] + b[1] * a[2], a[2] * b[2])
RMulInt(a, z) == Frac(a[1] * z, a[2])
RDivInt(a, z) == Frac(a[1], a[2] * z)
RLe(a, b) == a[1] * b[2] <= b[1] * a[2]

(***************************************************************************)
(* AverageMeter                                                            *)
(***************************************************************************)
\* reset that leaves self.sum as it was
resetKeepsSum(m) == [val |-> Zero, avg |-> Zero, sum |-> m.sum, count |-> 0]

\* AverageMeter.reset
reset(m) == [val |-> Zero, avg |-> Zero, sum |-> Zero, count |-> 0]

\* AverageMeter.__init__: name and fmt are display only; the state is reset()'s
NewMeter == reset([val |-> Zero, avg |-> Zero, sum |-> Zero, count |-> 0])

\* self.sum / self.count raises ZeroDivisionError when the new count is 0
updateRaises(m, val, n) == m.count + n = 0

\* update with self.sum = val * n in place of +=
updateDropsSum(m, val, n) ==
    LET s == RMulInt(val, n)
        c == m.count + n
    IN  [val |-> val, sum |-> s, count |-> c,
         avg |-> IF c = 0 THEN m.avg ELSE RDivInt(s, c)]

\* AverageMeter.update: the four assignments in order; when the division
\* raises, val, sum and count are already assigned and avg keeps its old value
update(m, val, n) ==
    LET s == RAdd(m.sum, RMulInt(val, n))
        c == m.count + n
    IN  [val |-> val, sum |-> s, count |-> c,
         avg |-> IF c = 0 THEN m.avg ELSE RDivInt(s, c)]

MeterValues == {Int2R(0), Int2R(1), <<1, 2>>}
MeterWeights == (-1) .. MaxWeight

IdleMeter ==
    /\ meter = NewMeter
    /\ hist = <<>>
    /\ lastOp = "init"
    /\ dirty = FALSE

IdleAccuracy ==
    /\ output = <<>>
    /\ target = <<>>
    /\ topk = <<>>
    /\ nclass = 0
    /\ pred = <<>>
    /\ res = <<>>
    /\ accPc = "idle"

NoFailure == [batch |-> 0, steps |-> 0, step |-> "none"]

IdleEpoch ==
    /\ mode = "none"
    /\ amp = FALSE
    /\ numBatches = 0
    /\ numClasses = 0
    /\ i = 0
    /\ pc = "idle"
    /\ images = [n |-> 0, ch |-> 0]
    /\ labels = <<>>
    /\ logist = <<>>
    /\ loss = 0
    /\ acc1 = Zero
    /\ losses = NewMeter
    /\ top1 = NewMeter
    /\ batch_time = NewMeter
    /\ data_time = NewMeter
    /\ now = 0
    /\ end = 0
    /\ steps = 0
    /\ summary = <<>>
    /\ events = <<>>
    /\ failedAt = NoFailure
    /\ exLoss = 0
    /\ exAcc = Zero
    /\ exCount = 0

InitMeter ==
    /\ IdleAccuracy
    /\ IdleEpoch
    /\ meter = NewMeter
    /\ hist = <<>>
    /\ lastOp = "init"
    /\ dirty = FALSE

MeterUpdate ==
    \E val \in MeterValues, n \in MeterWeights :
        /\ Len(hist) < MaxUpdates
        /\ meter' = update(meter, val, n)
        /\ hist' = Append(hist, <<val, n>>)
        /\ lastOp' = IF updateRaises(meter, val, n) THEN "raised" ELSE "update"
        /\ UNCHANGED <<dirty, accVars, epochVars>>

MeterReset ==
    /\ meter' = reset(meter)
    /\ hist' = <<>>
    /\ lastOp' = "reset"
    /\ dirty' = (hist # <<>>)
    /\ UNCHANGED <<accVars, epochVars>>

NextMeter == MeterUpdate \/ MeterReset

SpecMeter == InitMeter /\ [][NextMeter]_vars

(***************************************************************************)
(* Claims about AverageMeter (checked under SpecMeter)                     *)
(***************************************************************************)
AllPositive(h) == \A j \in 1 .. Len(h) : h[j][2] > 0

RECURSIVE SumVW(_)
SumVW(h) ==
    IF h = <<>> THEN Zero
    ELSE RAdd(SumVW(SubSeq(h, 1, Len(h) - 1)), RMulInt(h[Len(h)][1], h[Len(h)][2]))

RECURSIVE SumW(_)
SumW(h) == IF h = <<>> THEN 0 ELSE SumW(SubSeq(h, 1, Len(h) - 1)) + h[Len(h)][2]

\* C1: after any updates with weight > 0 since construction or the last reset,
\* avg = sum / count = (sum of value*weight) / (sum of weight) over those
\* updates; right after construction or reset count is 0 and avg is 0.
C1_RunningAverage ==
    /\ lastOp \in {"init", "reset"} => (meter.count = 0 /\ meter.avg = Zero)
    /\ AllPositive(hist) =>
        /\ meter.count = SumW(hist)
        /\ meter.sum = SumVW(hist)
        /\ meter.count = 0 => meter.avg = Zero
        /\ meter.count > 0 =>
            /\ meter.avg = RDivInt(meter.sum, meter.count)
            /\ meter.avg = RDivInt(SumVW(hist), SumW(hist))

\* three positive-weight updates whose weighted mean is not one of the values
C1_Witness ==
    /\ Len(hist) = 3
    /\ AllPositive(hist)
    /\ hist[1][2] # hist[2][2]
    /\ hist[1][1] # hist[2][1]
    /\ meter.avg[2] = 5

\* C5: reset() zeroes val, avg, sum and count whatever the meter held, and
\* reset() followed by update(v, w) gives exactly the state update(v, w) gives
\* on a freshly constructed meter.
C5_ResetThenUpdate ==
    /\ lastOp = "reset" =>
        meter = [val |-> Zero, avg |-> Zero, sum |-> Zero, count |-> 0]
    /\ \A v \in MeterValues, w \in MeterWeights :
        /\ update(reset(meter), v, w) = update(NewMeter, v, w)
        /\ w # 0 => update(reset(meter), v, w) =
                     [val |-> v, avg |-> v, sum |-> RMulInt(v, w), count |-> w]
    /\ (Len(hist) = 1 /\ hist[1][2] # 0) =>
        meter = [val |-> hist[1][1], avg |-> hist[1][1],
                 sum |-> RMulInt(hist[1][1], hist[1][2]), count |-> hist[1][2]]

\* a meter that had been updated, was reset, and was updated once since
C5_Witness ==
    /\ dirty
    /\ lastOp = "update"
    /\ Len(hist) = 1
    /\ meter.sum # Zero

(***************************************************************************)
(* accuracy(output, target, topk)                                          *)
(***************************************************************************)
SeqMax(s) == CHOOSE x \in {s[j] : j \in 1 .. Len(s)} : \A j \in 1 .. Len(s) : s[j] <= x

\* a topk that accepts any k
topkNeverRaises(C, maxk) == FALSE

\* output.topk(maxk, 1, True, True) raises when maxk exceeds the class dimension
topkRaises(C, maxk) == maxk > C

\* The index rows output.topk(maxk, 1, largest=True, sorted=True) may return
\* for one score vector: maxk distinct classes, each one a highest-scoring class
\* among those not yet taken.  Equal scores may come in any order.
RECURSIVE TopkOrders(_, _)
TopkOrders(scores, maxk) ==
    IF maxk = 0 THEN {<<>>}
    ELSE UNION {
            LET taken == {s[a] : a \in 1 .. Len(s)}
                left == (0 .. Len(scores) - 1) \ taken
            IN  {Append(s, c) : c \in {d \in left :
                                        \A x \in left : scores[d + 1] >= scores[x + 1]}}
            : s \in TopkOrders(scores, maxk - 1)}

\* every value topk may return for the batch: one order per example
RECURSIVE TopkResults(_, _)
TopkResults(out, maxk) ==
    IF out = <<>> THEN {<<>>}
    ELSE {Append(p, o) : p \in TopkResults(SubSeq(out, 1, Len(out) - 1), maxk),
                         o \in TopkOrders(out[Len(out)], maxk)}

\* correct = pred.t().eq(target.view(1, -1).expand_as(pred)): row r, column e
correct(p, tgt, r, e) == p[e][r] = tgt[e]

\* correct[k - 1:] in place of correct[:k]
correctKSuffix(p, tgt, maxk, k) ==
    Cardinality({re \in (k .. maxk) \X (1 .. Len(tgt)) : correct(p, tgt, re[1], re[2])})

\* correct[:k - 1] in place of correct[:k]
correctKExclusive(p, tgt, maxk, k) ==
    Cardinality({re \in (1 .. k - 1) \X (1 .. Len(tgt)) : correct(p, tgt, re[1], re[2])})

\* correct[:k].reshape(-1).float().sum(0): the true entries of the first k rows
correctK(p, tgt, maxk, k) ==
    Cardinality({re \in (1 .. (IF k < maxk THEN k ELSE maxk)) \X (1 .. Len(tgt)) :
                    correct(p, tgt, re[1], re[2])})

\* 100.0 / batch_size raises ZeroDivisionError for an empty batch
accuracyRaises(C, tgt, tk) == topkRaises(C, SeqMax(tk)) \/ Len(tgt) = 0

\* the loop body using maxk in place of k
accuracyAppendsMax(p, tgt, tk) ==
    [j \in 1 .. Len(tk) |->
        Frac(correctK(p, tgt, SeqMax(tk), SeqMax(tk)) * 100, Len(tgt))]

\* the list res: one correct_k * (100.0 / batch_size) per k, in the order of topk
accuracy(p, tgt, tk) ==
    [j \in 1 .. Len(tk) |-> Frac(correctK(p, tgt, SeqMax(tk), tk[j]) * 100, Len(tgt))]

AccScores == {0, 1}
AccBatchSizes == 0 .. 2
TopkChoices(C) ==
    {<<k>> : k \in 1 .. C + 1} \cup
    {<<kk[1], kk[2]>> : kk \in {x \in (1 .. C + 1) \X (1 .. C + 1) : x[1] # x[2]}}

InitAccuracy ==
    /\ IdleMeter
    /\ IdleEpoch
    /\ nclass \in 1 .. MaxClasses
    /\ \E N \in AccBatchSizes :
        /\ output \in [1 .. N -> [1 .. nclass -> AccScores]]
        /\ target \in [1 .. N -> 0 .. nclass - 1]
    /\ topk \in TopkChoices(nclass)
    /\ pred = <<>>
    /\ res = <<>>
    /\ accPc = "call"

AccuracyRaise ==
    /\ accPc = "call"
    /\ accuracyRaises(nclass, target, topk)
    /\ accPc' = "raised"
    /\ UNCHANGED <<output, target, topk, nclass, pred, res, meterVars, epochVars>>

AccuracyReturn ==
    /\ accPc = "call"
    /\ ~accuracyRaises(nclass, target, topk)
    /\ \E p \in TopkResults(output, SeqMax(topk)) :
        /\ pred' = p
        /\ res' = accuracy(p, target, topk)
    /\ accPc' = "returned"
    /\ UNCHANGED <<output, target, topk, nclass, meterVars, epochVars>>

NextAccuracy == AccuracyRaise \/ AccuracyReturn

SpecAccuracy == InitAccuracy /\ [][NextAccuracy]_vars

(***************************************************************************)
(* Claims about accuracy (checked under SpecAccuracy)                      *)
(***************************************************************************)
\* the classes in the first k places of example e's returned order
TopClasses(e, k) == {pred[e][r] : r \in 1 .. k}

\* S is a set of k highest-scoring classes of example e
IsKHighest(S, e, k) ==
    /\ Cardinality(S) = k
    /\ S \subseteq 0 .. nclass - 1
    /\ \A c \in S, d \in (0 .. nclass - 1) \ S : output[e][c + 1] >= output[e][d + 1]

\* the number of examples whose label is among the example's k top classes
Hits(k) == Cardinality({e \in 1 .. Len(target) : target[e] \in TopClasses(e, k)})

\* C2: accuracy returns one result per k of topk, in topk's order; the result
\* for k is 100 * (examples whose label is among the example's k
\* highest-scoring classes) / N, it lies in [0, 100], and the call changes
\* none of its arguments nor any other state.
C2_AccuracyValue ==
    /\ [](accPc = "returned" =>
            /\ Len(res) = Len(topk)
            /\ \A j \in 1 .. Len(topk) :
                /\ \A e \in 1 .. Len(target) : IsKHighest(TopClasses(e, topk[j]), e, topk[j])
                /\ res[j] = Frac(100 * Hits(topk[j]), Len(target))
                /\ RLe(Zero, res[j])
                /\ RLe(res[j], Int2R(100)))
    /\ [][UNCHANGED <<output, target, topk, nclass, meterVars, epochVars>>]_vars

\* two examples, one hit at top-1, results for topk = (2, 1) in that order
C2_Witness ==
    /\ accPc = "returned"
    /\ Len(target) = 2
    /\ topk = <<2, 1>>
    /\ nclass = 3
    /\ res = <<Int2R(100), Int2R(50)>>
    /\ \E e \in 1 .. 2 : output[e][1] = output[e][2]

\* C6: within one call, for k1 < k2 <= C the top-k1 accuracy is at most the
\* top-k2 accuracy.
C6_MonotonicInK ==
    accPc = "returned" =>
        \A j1, j2 \in 1 .. Len(topk) :
            (topk[j1] < topk[j2] /\ topk[j2] <= nclass) => RLe(res[j1], res[j2])

\* k1 < k2 < C with a strictly larger top-k2 accuracy
C6_Witness ==
    /\ accPc = "returned"
    /\ \E j1, j2 \in 1 .. Len(topk) :
        /\ topk[j1] < topk[j2]
        /\ topk[j2] < nclass
        /\ res[j1] # res[j2]
        /\ res[j1] # Zero

\* C7: for N > 0 examples with labels in [0, C), the result for k = C is 100.
C7_TopCIsHundred ==
    (accPc = "returned" /\ Len(target) > 0) =>
        \A j \in 1 .. Len(topk) : topk[j] = nclass => res[j] = Int2R(100)

\* k = C requested together with a smaller k whose accuracy is below 100
C7_Witness ==
    /\ accPc = "returned"
    /\ Len(target) = 2
    /\ nclass = 3
    /\ \E j1, j2 \in 1 .. Len(topk) :
        /\ topk[j1] = nclass
        /\ res[j1] = Int2R(100)
        /\ res[j2] = Zero

(***************************************************************************)
(* train(model, train_loader, optimizer, ceriation, epoch, amp) and        *)
(* evaluate(model, eva_loader, ceriation, prefix)                          *)
(***************************************************************************)
\* the amp branch with scaler.update() before scaler.step(optimizer)
TrainAmpStepsUpdateFirst ==
    <<"data_time", "to_device", "forward", "loss", "zero_grad", "scale",
      "backward", "scaler_update", "scaler_step", "accuracy", "stats">>

\* the statements of one iteration of train's loop with amp, in program order
TrainAmpSteps ==
    <<"data_time", "to_device", "forward", "loss", "zero_grad", "scale",
      "backward", "scaler_step", "scaler_update", "accuracy", "stats">>

\* the plain branch without optimizer.step()
TrainPlainStepsNoStep ==
    <<"data_time", "to_device", "forward", "loss", "zero_grad", "backward",
      "accuracy", "stats">>

\* the statements of one iteration of train's loop without amp
TrainPlainSteps ==
    <<"data_time", "to_device", "forward", "loss", "zero_grad", "backward",
      "optimizer_step", "accuracy", "stats">>

\* the statements of one iteration of evaluate's loop
EvalSteps == <<"to_device", "forward", "loss", "accuracy", "stats">>

Body ==
    IF mode = "evaluate" THEN EvalSteps
    ELSE IF amp THEN TrainAmpSteps ELSE TrainPlainSteps

\* the statement after step st of the loop body; after the last, the loop head
After(st) ==
    LET at == CHOOSE a \in 1 .. Len(Body) : Body[a] = st
    IN  IF at = Len(Body) THEN "fetch" ELSE Body[at + 1]

\* topk=(1, 5) in both loops
TrainTopk == <<1, 5>>

\* images[0].size(0): the first dimension of the batch's first image
BatchWeight(img) == img.ch

\* top1.avg.to("cpu", torch.float) needs a tensor: avg is still the int 0 of
\* reset() when top1 was never updated
SummaryRaises == top1.count = 0

EpochClassCounts == {2, 5}
EpochLabels == {0, 1}
LossValues == {0, 1}

\* a tie-free score vector over C classes whose best class is t
Ranked(C, t) == [c \in 1 .. C |-> C - ((c - 1 - t + C) % C)]

InitEpoch ==
    /\ IdleMeter
    /\ IdleAccuracy
    /\ mode \in {"train", "evaluate"}
    /\ amp \in BOOLEAN
    /\ mode = "evaluate" => amp = FALSE
    /\ numBatches \in 0 .. MaxBatches
    /\ numClasses \in EpochClassCounts
    /\ i = 0
    /\ pc = "fetch"
    /\ images = [n |-> 0, ch |-> 0]
    /\ labels = <<>>
    /\ logist = <<>>
    /\ loss = 0
    /\ acc1 = Zero
    /\ losses = NewMeter
    /\ top1 = NewMeter
    /\ batch_time = NewMeter
    /\ data_time = NewMeter
    /\ now = 0
    /\ end = 0
    /\ steps = 0
    /\ summary = <<>>
    /\ events = <<>>
    /\ failedAt = NoFailure
    /\ exLoss = 0
    /\ exAcc = Zero
    /\ exCount = 0

\* an exception swallowed by the loop, which goes on with the next batch
RaiseSkipsBatch ==
    /\ pc' = "fetch"
    /\ failedAt' = [batch |-> i, steps |-> steps, step |-> pc]
    /\ UNCHANGED <<cfgVars, i, batchVars, statVars, now, end, steps, summary,
                   events, tallyVars>>

\* an exception leaves train / evaluate: neither has a try statement
Raise ==
    /\ pc' = "failed"
    /\ failedAt' = [batch |-> i, steps |-> steps, step |-> pc]
    /\ UNCHANGED <<cfgVars, i, batchVars, statVars, now, end, steps, summary,
                   events, tallyVars>>

\* a plain statement of the loop body: control moves on, time passes
Advance(ev) ==
    /\ pc' = After(pc)
    /\ events' = Append(events, ev)
    /\ now' = now + 1

\* for i, (images, labels) in enumerate(loader): the next batch
FetchBatch ==
    /\ pc = "fetch"
    /\ i < numBatches
    /\ \E n \in 0 .. MaxBatchSize :
        /\ images' = [n |-> n, ch |-> Channels]
        /\ labels' \in [1 .. n -> EpochLabels]
    /\ i' = i + 1
    /\ pc' = Body[1]
    /\ events' = <<>>
    /\ now' = now + 1
    /\ UNCHANGED <<cfgVars, logist, loss, acc1, statVars, end, steps, summary,
                   failedAt, tallyVars, meterVars, accVars>>

\* the loader is exhausted: the loop ends
LoaderExhausted ==
    /\ pc = "fetch"
    /\ i = numBatches
    /\ pc' = "finish"
    /\ UNCHANGED <<cfgVars, i, batchVars, statVars, now, end, steps, summary,
                   events, failedAt, tallyVars, meterVars, accVars>>

\* data_time.update(time.time() - end)
DataTime ==
    /\ pc = "data_time"
    /\ data_time' = update(data_time, Int2R(now - end), 1)
    /\ Advance("data_time")
    /\ UNCHANGED <<cfgVars, i, batchVars, losses, top1, batch_time, end, steps,
                   summary, failedAt, tallyVars, meterVars, accVars>>

\* images.cuda(), labels.cuda()
ToDevice ==
    /\ pc = "to_device"
    /\ Advance("to_device")
    /\ UNCHANGED <<cfgVars, i, batchVars, statVars, end, steps, summary,
                   failedAt, tallyVars, meterVars, accVars>>

\* logist = model(images)
Forward ==
    /\ pc = "forward"
    /\ logist' \in [1 .. images.n -> {Ranked(numClasses, t) : t \in EpochLabels}]
    /\ Advance("forward")
    /\ UNCHANGED <<cfgVars, i, images, labels, loss, acc1, statVars, end, steps,
                   summary, failedAt, tallyVars, meterVars, accVars>>

\* loss = ceriation(logist, labels)
Loss ==
    /\ pc = "loss"
    /\ loss' \in LossValues
    /\ Advance("loss")
    /\ UNCHANGED <<cfgVars, i, images, labels, logist, acc1, statVars, end, steps,
                   summary, failedAt, tallyVars, meterVars, accVars>>

\* optimizer.zero_grad()
ZeroGrad ==
    /\ pc = "zero_grad"
    /\ Advance("zero_grad")
    /\ UNCHANGED <<cfgVars, i, batchVars, statVars, end, steps, summary,
                   failedAt, tallyVars, meterVars, accVars>>

\* scaler.scale(loss)
Scale ==
    /\ pc = "scale"
    /\ Advance("scale")
    /\ UNCHANGED <<cfgVars, i, batchVars, statVars, end, steps, summary,
                   failedAt, tallyVars, meterVars, accVars>>

\* .backward() on the loss (scaled under amp)
Backward ==
    /\ pc = "backward"
    /\ Advance("backward")
    /\ UNCHANGED <<cfgVars, i, batchVars, statVars, end, steps, summary,
                   failedAt, tallyVars, meterVars, accVars>>

\* scaler.step(optimizer)
ScalerStep ==
    /\ pc = "scaler_step"
    /\ steps' = steps + 1
    /\ Advance("scaler_step")
    /\ UNCHANGED <<cfgVars, i, batchVars, statVars, end, summary,
                   failedAt, tallyVars, meterVars, accVars>>

\* scaler.update()
ScalerUpdate ==
    /\ pc = "scaler_update"
    /\ Advance("scaler_update")
    /\ UNCHANGED <<cfgVars, i, batchVars, statVars, end, steps, summary,
                   failedAt, tallyVars, meterVars, accVars>>

\* optimizer.step()
OptimizerStep ==
    /\ pc = "optimizer_step"
    /\ steps' = steps + 1
    /\ Advance("optimizer_step")
    /\ UNCHANGED <<cfgVars, i, batchVars, statVars, end, summary,
                   failedAt, tallyVars, meterVars, accVars>>

\* acc1, acc5 = accuracy(logist, labels, topk=(1, 5))
Accuracy ==
    /\ pc = "accuracy"
    /\ ~accuracyRaises(numClasses, labels, TrainTopk)
    /\ \E p \in TopkResults(logist, SeqMax(TrainTopk)) :
        acc1' = accuracy(p, labels, TrainTopk)[1]
    /\ Advance("accuracy")
    /\ UNCHANGED <<cfgVars, i, images, labels, logist, loss, statVars, end, steps,
                   summary, failedAt, tallyVars, meterVars, accVars>>

\* the accuracy call raises
AccuracyFails ==
    /\ pc = "accuracy"
    /\ accuracyRaises(numClasses, labels, TrainTopk)
    /\ Raise
    /\ UNCHANGED <<meterVars, accVars>>

\* losses.update(loss.item(), images[0].size(0))
\* top1.update(acc1[0], images[0].size(0))
\* and in train: batch_time.update(time.time() - end); end = time.time()
Stats ==
    /\ pc = "stats"
    /\ losses' = update(losses, Int2R(loss), BatchWeight(images))
    /\ top1' = update(top1, acc1, BatchWeight(images))
    /\ IF mode = "train"
       THEN /\ batch_time' = update(batch_time, Int2R(now - end), 1)
            /\ end' = now
            /\ events' = events \o <<"losses", "top1", "batch_time">>
       ELSE /\ UNCHANGED <<batch_time, end>>
            /\ events' = events \o <<"losses", "top1">>
    /\ exLoss' = exLoss + loss * images.n
    /\ exAcc' = RAdd(exAcc, RMulInt(acc1, images.n))
    /\ exCount' = exCount + images.n
    /\ pc' = After(pc)
    /\ now' = now + 1
    /\ UNCHANGED <<cfgVars, i, batchVars, data_time, steps, summary, failedAt,
                   meterVars, accVars>>

\* return losses.avg, top1.avg.to("cpu", torch.float).item()
Finish ==
    /\ pc = "finish"
    /\ ~SummaryRaises
    /\ summary' = <<losses.avg, top1.avg>>
    /\ pc' = "done"
    /\ UNCHANGED <<cfgVars, i, batchVars, statVars, now, end, steps, events,
                   failedAt, tallyVars, meterVars, accVars>>

\* the return statement raises AttributeError
FinishFails ==
    /\ pc = "finish"
    /\ SummaryRaises
    /\ Raise
    /\ UNCHANGED <<meterVars, accVars>>

\* the statements that call a collaborator: loader, device, model, loss
\* function, optimizer, scaler
Fallible ==
    {"fetch", "to_device", "forward", "loss", "zero_grad", "scale", "backward",
     "scaler_step", "scaler_update", "optimizer_step"}

\* a collaborator raises at the current statement
CollaboratorFails ==
    /\ pc \in Fallible
    /\ pc = "fetch" => i < numBatches
    /\ Raise
    /\ UNCHANGED <<meterVars, accVars>>

NextEpoch ==
    \/ FetchBatch
    \/ LoaderExhausted
    \/ DataTime
    \/ ToDevice
    \/ Forward
    \/ Loss
    \/ ZeroGrad
    \/ Scale
    \/ Backward
    \/ ScalerStep
    \/ ScalerUpdate
    \/ OptimizerStep
    \/ Accuracy
    \/ AccuracyFails
    \/ Stats
    \/ Finish
    \/ FinishFails
    \/ CollaboratorFails

SpecEpoch == InitEpoch /\ [][NextEpoch]_vars

\* accuracy called on its own (on at most one example), or from train / evaluate
InitCalls == (InitAccuracy /\ Len(target) <= 1) \/ InitEpoch

NextCalls == NextAccuracy \/ NextEpoch

SpecCalls == InitCalls /\ [][NextCalls]_vars

(***************************************************************************)
(* Claims about train and evaluate (checked under SpecEpoch, SpecCalls)    *)
(***************************************************************************)
\* C3: a train run over B batches that returns has called the optimizer step
\* exactly B times, once per batch, with and without amp; evaluate never
\* calls it.
C3_OptimizerSteps ==
    /\ mode = "evaluate" => steps = 0
    /\ (mode = "train" /\ pc = "done") => steps = numBatches
    /\ (mode = "train" /\ pc \in {"fetch", "finish", "done"}) => steps = i
    /\ mode = "train" => (steps = i \/ steps = i - 1)

\* a completed amp run over two batches
C3_Witness ==
    /\ mode = "train"
    /\ amp
    /\ pc = "done"
    /\ numBatches = 2
    /\ steps = 2

\* C4: once a collaborator (or the accuracy computation) has raised while
\* batch i was processed, the run is over: no further batch is fetched, no
\* further optimizer step is made and no summary is returned.
C4_FailFast ==
    /\ pc = "failed" <=> failedAt # NoFailure
    /\ failedAt # NoFailure =>
        /\ summary = <<>>
        /\ i = failedAt.batch
        /\ steps = failedAt.steps

\* the model raised on the first of two batches
C4_Witness ==
    /\ mode = "train"
    /\ numBatches = 2
    /\ failedAt.step = "forward"
    /\ failedAt.batch = 1
    /\ steps = 0

SomeKAbove(tk, C) == \E j \in 1 .. Len(tk) : tk[j] > C

\* C8: accuracy called with a k above the number of classes raises and
\* returns nothing; train and evaluate ask for topk = (1, 5), so with fewer
\* than 5 classes the run fails at the first batch's accuracy call.
C8_KAboveClassesRaises ==
    /\ (accPc # "idle" /\ SomeKAbove(topk, nclass)) =>
        /\ accPc # "returned"
        /\ res = <<>>
        /\ accPc = "call" => accuracyRaises(nclass, target, topk)
    /\ (pc # "idle" /\ numClasses < 5) =>
        /\ pc \notin {"stats", "done"}
        /\ summary = <<>>
        /\ losses.count = 0
        /\ top1.count = 0
        /\ i <= 1
        /\ pc = "accuracy" => accuracyRaises(numClasses, labels, TrainTopk)
        /\ (failedAt.step = "accuracy") => failedAt.batch = 1

\* a two-class training run that failed in the first batch's accuracy call,
\* after that batch's optimizer step
C8_Witness ==
    /\ mode = "train"
    /\ numClasses = 2
    /\ numBatches = 2
    /\ images.n = 2
    /\ failedAt.step = "accuracy"
    /\ steps = 1

\* C9: the returned summary is the example-count-weighted mean of the
\* per-batch loss and top-1 accuracy.
C9_ExampleWeightedSummary ==
    (pc = "done" /\ exCount > 0) =>
        summary = <<Frac(exLoss, exCount), RDivInt(exAcc, exCount)>>

AmpOrder ==
    <<"forward", "loss", "zero_grad", "scale", "backward", "scaler_step",
      "scaler_update">>

InAmpOrder(ev) == \E a \in 1 .. Len(AmpOrder) : AmpOrder[a] = ev

IsPrefix(a, b) == Len(a) <= Len(b) /\ a = SubSeq(b, 1, Len(a))

\* every update of a statistic in stats comes after scaler.update()
AfterScalerUpdate(statEvents) ==
    \A a \in 1 .. Len(events) :
        events[a] \in statEvents => \E b \in 1 .. a - 1 : events[b] = "scaler_update"

AmpSequence ==
    /\ IsPrefix(SelectSeq(events, InAmpOrder), AmpOrder)
    /\ (pc \in {"fetch", "finish", "done"} /\ i > 0) =>
        SelectSeq(events, InAmpOrder) = AmpOrder

\* C10 as stated: in every amp batch the events run forward, loss,
\* zero_grad, scale, backward, scaler.step, scaler.update, none skipped, and
\* every statistic of the batch is updated only after scaler.update().
C10_AmpOrderAllStatistics ==
    (mode = "train" /\ amp) =>
        /\ AmpSequence
        /\ AfterScalerUpdate({"data_time", "losses", "top1", "batch_time"})

\* C10 amended: the same order; the loss, accuracy and batch-time statistics
\* are updated only after scaler.update(), and the data-loading-time
\* statistic is updated first, before the forward pass.
C10_AmpOrder ==
    (mode = "train" /\ amp) =>
        /\ AmpSequence
        /\ AfterScalerUpdate({"losses", "top1", "batch_time"})
        /\ \A a \in 1 .. Len(events) : events[a] = "data_time" <=> a = 1

\* an amp batch that ran to its end
C10_Witness ==
    /\ mode = "train"
    /\ amp
    /\ pc = "fetch"
    /\ i = 1
    /\ Len(events) = 13
    /\ events[13] = "batch_time"

====
